---- MODULE Spec2Model ----
(***************************************************************************)
(* A model of pytest-kaleido's variant parser, src/pytest_kaleido/plugin.py: *)
(* the escaped-delimiter splitter _split_escaped, the tokenizer            *)
(* _parse_variant_args_to_lists and the merge                              *)
(* VariantPluginBase.parse_variants_from_list.                             *)
(*                                                                         *)
(* A Python string is a sequence of one-character strings; Python's        *)
(* 0-based index i reads element i + 1 of the sequence.                    *)
(***************************************************************************)
EXTENDS Naturals, Sequences, FiniteSets

VARIABLES
    s, sep, i, buf, parts, spc,         \* one call of _split_escaped
    variant_args,                       \* the argument of parse_variants
    pc,                                 \* where the call of parse_variants stands
    arg_i, segs, seg_i, prev_attrs, ret,    \* _parse_variant_args_to_lists
    attr_lists, m_i, variant_map, result,   \* parse_variants_from_list
    obj_specs,                          \* the (name, attributes) pairs objects are built from
    variant_objs, built_by,             \* the Variant objects built, and how
    q_arg, q_ret, qpc,                  \* one call of get_attributes or get_variants
    ids                                 \* the test ids of pytest_generate_tests

splitVars == <<s, sep, i, buf, parts, spc>>
tokVars == <<variant_args, arg_i, segs, seg_i, prev_attrs, ret>>
mergeVars == <<attr_lists, m_i, variant_map, result>>
queryVars == <<obj_specs, variant_objs, built_by, q_arg, q_ret, qpc>>
vars == <<s, sep, i, buf, parts, spc, variant_args, pc, arg_i, segs, seg_i,
          prev_attrs, ret, attr_lists, m_i, variant_map, result,
          obj_specs, variant_objs, built_by, q_arg, q_ret, qpc, ids>>

(***************************************************************************)
(* Bounds and alphabets                                                    *)
(***************************************************************************)
MaxLen == 5                              \* longest string given to _split_escaped
MaxArgs == 2                             \* most strings in one argument collection
MaxArgLen == 3                           \* longest string of a collection
MaxOneLen == 7                           \* longest string given alone
MaxLists == 2                            \* most raw attribute-lists given to the merge
MaxRaw == 2                              \* longest raw attribute-list given to the merge
MaxObjs == 2                             \* most Variant objects in a queried list
MaxAttrs == 2                            \* longest attribute list given to the constructor
MaxQuery == 2                            \* longest attribute list given to get_variants
MaxIdArgs == 2                           \* most --variant options of one test session
MaxIdLen == 4                            \* longest --variant option of a test session

BS == "\\"                               \* the backslash character
Chars == {"a", "b", ":", ",", BS}
Seps == {",", ":"}                       \* the separators the program passes (lines 120, 121)

StringsUpTo(n) == UNION {[1..k -> Chars] : k \in 0..n}

(***************************************************************************)
(* _split_escaped (plugin.py 53-75)                                        *)
(***************************************************************************)
\* line 63: s[i] == '\\' and i + 1 < len(s) and s[i + 1] == sep
EscapeCond(str, c, k) == str[k + 1] = BS /\ k + 1 < Len(str) /\ str[k + 2] = c

\* line 66: s[i] == sep
SepCond(str, c, k) == str[k + 1] = c

\* OnEscape keeping the escape backslash in the segment
OnEscapeKeepBackslash(str, c, st) ==
    [i |-> st.i + 2, buf |-> st.buf \o <<BS, c>>, parts |-> st.parts]

\* lines 64-65
OnEscape(str, c, st) ==
    [i |-> st.i + 2, buf |-> Append(st.buf, c), parts |-> st.parts]

\* OnSep dropping an empty segment (if buf: parts.append(buf))
OnSepSkipEmpty(str, c, st) ==
    [i |-> st.i + 1, buf |-> <<>>,
     parts |-> IF st.buf = <<>> THEN st.parts ELSE Append(st.parts, st.buf)]

\* lines 67-69
OnSep(str, c, st) ==
    [i |-> st.i + 1, buf |-> <<>>, parts |-> Append(st.parts, st.buf)]

\* OnCopy stripping every backslash it meets
OnCopyStripBackslash(str, c, st) ==
    [i |-> st.i + 1,
     buf |-> IF str[st.i + 1] = BS THEN st.buf ELSE Append(st.buf, str[st.i + 1]),
     parts |-> st.parts]

\* OnCopy without its i += 1
OnCopyNoAdvance(str, c, st) ==
    [i |-> st.i, buf |-> Append(st.buf, str[st.i + 1]), parts |-> st.parts]

\* lines 71-72
OnCopy(str, c, st) ==
    [i |-> st.i + 1, buf |-> Append(st.buf, str[st.i + 1]), parts |-> st.parts]

\* OnReturn emitting the final segment only when it is not empty
OnReturnSkipEmpty(st) == IF st.buf = <<>> THEN st.parts ELSE Append(st.parts, st.buf)

\* line 73
OnReturn(st) == Append(st.parts, st.buf)

\* one iteration of the while loop, lines 63-72
SplitBody(str, c, st) ==
    IF EscapeCond(str, c, st.i) THEN OnEscape(str, c, st)
    ELSE IF SepCond(str, c, st.i) THEN OnSep(str, c, st)
    ELSE OnCopy(str, c, st)

RECURSIVE SplitLoop(_, _, _)
\* the while loop, line 62
SplitLoop(str, c, st) ==
    IF st.i < Len(str) THEN SplitLoop(str, c, SplitBody(str, c, st)) ELSE st

\* lines 59-61
SplitStart == [i |-> 0, buf |-> <<>>, parts |-> <<>>]

\* the whole function
_split_escaped(str, c) == OnReturn(SplitLoop(str, c, SplitStart))

(***************************************************************************)
(* _parse_variant_args_to_lists (plugin.py 78-130)                         *)
(***************************************************************************)
\* the argument is None, or a list of strings
NoneArgs == [isNone |-> TRUE, items |-> <<>>]
ListArgs(items) == [isNone |-> FALSE, items |-> items]

\* Falsy testing for the empty list only (variant_args == [])
FalsyOnlyEmptyList(args) == ~args.isNone /\ args.items = <<>>

\* line 115: not variant_args
Falsy(args) == args.isNone \/ args.items = <<>>

\* line 118: what "for arg in variant_args" does after k strings; None is not
\* iterable and raises TypeError
IterNext(args, k) ==
    IF args.isNone THEN "raise"
    ELSE IF k < Len(args.items) THEN "item" ELSE "stop"

\* DropEmpty keeping every token
DropEmptyKeepAll(xs) == xs

RECURSIVE DropEmpty(_)
\* line 122: [a for a in attrs if a]
DropEmpty(xs) ==
    IF xs = <<>> THEN <<>>
    ELSE (IF Head(xs) = <<>> THEN <<>> ELSE <<Head(xs)>>) \o DropEmpty(Tail(xs))

\* SegmentAttrs where every segment with a token inherits
SegmentAttrsAlwaysInherit(vstr, prev) ==
    LET attrs == DropEmpty(_split_escaped(vstr, ":"))
    IN  IF attrs # <<>> THEN prev \o attrs ELSE attrs

\* SegmentAttrs where only a segment without a colon inherits
SegmentAttrsNoColonOnly(vstr, prev) ==
    LET split == _split_escaped(vstr, ":")
        attrs == DropEmpty(split)
    IN  IF Len(split) = 1 /\ Len(attrs) = 1 /\ prev # <<>> THEN prev \o <<attrs[1]>> ELSE attrs

\* lines 121-124: the tokens of one comma-segment, after inheritance
SegmentAttrs(vstr, prev) ==
    LET attrs == DropEmpty(_split_escaped(vstr, ":"))
    IN  IF Len(attrs) = 1 /\ prev # <<>> THEN prev \o <<attrs[1]>> ELSE attrs

\* NextPrevAttrs taking the prefix of every segment, also of an empty one
NextPrevAttrsAlways(attrs, prev) == SubSeq(attrs, 1, Len(attrs) - 1)

\* lines 125-126: prev_attrs after the segment
NextPrevAttrs(attrs, prev) ==
    IF Len(attrs) > 1 THEN SubSeq(attrs, 1, Len(attrs) - 1) ELSE prev

\* lines 127-128
Emit(r, attrs) == IF attrs # <<>> THEN Append(r, attrs) ELSE r

\* the body of the inner loop, lines 121-128, on the pair (prev_attrs, ret)
SegmentStep(st, vstr) ==
    LET attrs == SegmentAttrs(vstr, st.prev_attrs)
    IN  [prev_attrs |-> NextPrevAttrs(attrs, st.prev_attrs), ret |-> Emit(st.ret, attrs)]

RECURSIVE SegmentLoop(_, _, _)
\* the inner loop, line 120, from segment k + 1 on
SegmentLoop(st, vstrs, k) ==
    IF k < Len(vstrs) THEN SegmentLoop(SegmentStep(st, vstrs[k + 1]), vstrs, k + 1) ELSE st

\* ArgStart without the reset of prev_attrs
ArgStartKeepPrev(st) == st

\* line 119: prev_attrs = []
ArgStart(st) == [prev_attrs |-> <<>>, ret |-> st.ret]

\* the body of the outer loop, lines 119-128
ArgStep(st, arg) == SegmentLoop(ArgStart(st), _split_escaped(arg, ","), 0)

RECURSIVE ArgLoop(_, _, _)
\* the outer loop, line 118, from string k + 1 on
ArgLoop(st, items, k) ==
    IF k < Len(items) THEN ArgLoop(ArgStep(st, items[k + 1]), items, k + 1) ELSE st

\* line 114; prev_attrs is unbound until line 119
TokStart == [prev_attrs |-> <<>>, ret |-> <<>>]

\* the whole function
_parse_variant_args_to_lists(args) ==
    IF Falsy(args) THEN TokStart.ret ELSE ArgLoop(TokStart, args.items, 0).ret

(***************************************************************************)
(* VariantPluginBase (plugin.py 133-309)                                   *)
(***************************************************************************)
ToSet(xs) == {xs[k] : k \in DOMAIN xs}

\* the code point of a character
CodePoint(ch) ==
    CASE ch = "," -> 44 [] ch = ":" -> 58 [] ch = BS -> 92 [] ch = "a" -> 97 [] ch = "b" -> 98

RECURSIVE StrLess(_, _)
\* Python's x < y on strings: lexicographic by code point
StrLess(x, y) ==
    IF y = <<>> THEN FALSE
    ELSE IF x = <<>> THEN TRUE
    ELSE IF Head(x) = Head(y) THEN StrLess(Tail(x), Tail(y))
    ELSE CodePoint(Head(x)) < CodePoint(Head(y))

RECURSIVE SortedList(_)
\* sorted(S) of a set of strings
SortedList(S) ==
    IF S = {} THEN <<>>
    ELSE LET m == CHOOSE x \in S : \A y \in S \ {x} : StrLess(x, y)
         IN  <<m>> \o SortedList(S \ {m})

\* Variant keeping the attributes as they were given
VariantNoSort(variant, attributes) == [variant |-> variant, attributes |-> attributes]

\* lines 149-150: __init__
Variant(variant, attributes) ==
    [variant |-> variant, attributes |-> SortedList(ToSet(attributes))]

\* the dict variant_map is the sequence of its items, in insertion order
\* line 255: variant in variant_map
HasKey(vm, key) == \E k \in DOMAIN vm : vm[k].key = key

\* MergeOne where a later occurrence of a name replaces the earlier one
MergeOneLastWins(vm, attrs) ==
    IF attrs = <<>> THEN vm
    ELSE LET attributes == SubSeq(attrs, 1, Len(attrs) - 1)
             variant == attrs[Len(attrs)]
         IN  IF HasKey(vm, variant)
             THEN [k \in DOMAIN vm |->
                     IF vm[k].key = variant
                     THEN [key |-> variant, value |-> ToSet(attributes)]
                     ELSE vm[k]]
             ELSE Append(vm, [key |-> variant, value |-> ToSet(attributes)])

\* MergeOne where a later occurrence moves the name to the end of the dict
MergeOneMoveToEnd(vm, attrs) ==
    IF attrs = <<>> THEN vm
    ELSE LET attributes == SubSeq(attrs, 1, Len(attrs) - 1)
             variant == attrs[Len(attrs)]
             NotIt(e) == e.key # variant
             old == UNION {vm[k].value : k \in {m \in DOMAIN vm : vm[m].key = variant}}
         IN  Append(SelectSeq(vm, NotIt),
                    [key |-> variant, value |-> old \cup ToSet(attributes)])

\* MergeOne that never looks the name up: one entry per raw list
MergeOneNoLookup(vm, attrs) ==
    IF attrs = <<>> THEN vm
    ELSE Append(vm, [key |-> attrs[Len(attrs)],
                     value |-> ToSet(SubSeq(attrs, 1, Len(attrs) - 1))])

\* lines 252-258: the body of the loop over attr_lists
MergeOne(vm, attrs) ==
    IF attrs = <<>> THEN vm
    ELSE LET attributes == SubSeq(attrs, 1, Len(attrs) - 1)
             variant == attrs[Len(attrs)]
         IN  IF HasKey(vm, variant)
             THEN [k \in DOMAIN vm |->
                     IF vm[k].key = variant
                     THEN [key |-> variant, value |-> vm[k].value \cup ToSet(attributes)]
                     ELSE vm[k]]
             ELSE Append(vm, [key |-> variant, value |-> ToSet(attributes)])

RECURSIVE MergeLoop(_, _, _)
\* the loop of line 251, from list k + 1 on
MergeLoop(vm, lists, k) ==
    IF k < Len(lists) THEN MergeLoop(MergeOne(vm, lists[k + 1]), lists, k + 1) ELSE vm

\* lines 259-260
BuildVariants(vm) ==
    [k \in DOMAIN vm |-> Variant(vm[k].key, SortedList(vm[k].value))]

\* lines 250-262
parse_variants_from_list(lists) == BuildVariants(MergeLoop(<<>>, lists, 0))

\* lines 200-203
parse_variants(args) == parse_variants_from_list(_parse_variant_args_to_lists(args))

(***************************************************************************)
(* The older revision of the core, pytest_variant/plugin.py                *)
(***************************************************************************)
RECURSIVE pv_SplitLoop(_, _, _, _, _)
\* pytest_variant lines 62-73: the while loop at index k, and the last append
pv_SplitLoop(str, c, k, b, ps) ==
    IF k < Len(str)
    THEN IF str[k + 1] = BS /\ k + 1 < Len(str) /\ str[k + 2] = c
         THEN pv_SplitLoop(str, c, k + 2, Append(b, c), ps)
         ELSE IF str[k + 1] = c
         THEN pv_SplitLoop(str, c, k + 1, <<>>, Append(ps, b))
         ELSE pv_SplitLoop(str, c, k + 1, Append(b, str[k + 1]), ps)
    ELSE Append(ps, b)

\* pytest_variant lines 53-75
pv_split_escaped(str, c) == pv_SplitLoop(str, c, 0, <<>>, <<>>)

\* pytest_variant lines 96-103: one comma-segment, on the pair (prev_attrs, ret)
pv_SegmentStep(st, vstr) ==
    LET NonEmpty(a) == a # <<>>
        kept == SelectSeq(pv_split_escaped(vstr, ":"), NonEmpty)
        attrs == IF Len(kept) = 1 /\ st.prev_attrs # <<>>
                 THEN Append(st.prev_attrs, kept[1]) ELSE kept
    IN  [prev_attrs |-> IF Len(attrs) > 1 THEN SubSeq(attrs, 1, Len(attrs) - 1)
                        ELSE st.prev_attrs,
         ret |-> IF attrs # <<>> THEN Append(st.ret, attrs) ELSE st.ret]

RECURSIVE pv_SegmentLoop(_, _, _)
\* pytest_variant line 95, from segment k + 1 on
pv_SegmentLoop(st, vstrs, k) ==
    IF k < Len(vstrs) THEN pv_SegmentLoop(pv_SegmentStep(st, vstrs[k + 1]), vstrs, k + 1)
    ELSE st

RECURSIVE pv_ArgLoop(_, _, _)
\* pytest_variant lines 93-94, from string k + 1 on: prev_attrs = [] for each
pv_ArgLoop(r, items, k) ==
    IF k < Len(items)
    THEN pv_ArgLoop(pv_SegmentLoop([prev_attrs |-> <<>>, ret |-> r],
                                   pv_split_escaped(items[k + 1], ","), 0).ret,
                    items, k + 1)
    ELSE r

\* pytest_variant lines 78-105
_parse_variants(args) ==
    IF args.isNone \/ args.items = <<>> THEN <<>> ELSE pv_ArgLoop(<<>>, args.items, 0)

\* pytest_variant line 124: __init__(attributes, variant)
pv_Variant(attributes, variant) ==
    [variant |-> variant, attributes |-> SortedList(ToSet(attributes))]

\* pv_MergeOne where a name seen before keeps its first attributes only
pv_MergeOneFirstWins(vm, attrs) ==
    IF attrs = <<>> THEN vm
    ELSE IF \E k \in DOMAIN vm : vm[k].key = attrs[Len(attrs)] THEN vm
    ELSE Append(vm, [key |-> attrs[Len(attrs)],
                     value |-> ToSet(SubSeq(attrs, 1, Len(attrs) - 1))])

\* pytest_variant lines 156-162: the body of the loop over attr_lists
pv_MergeOne(vm, attrs) ==
    IF attrs = <<>> THEN vm
    ELSE LET attributes == SubSeq(attrs, 1, Len(attrs) - 1)
             variant == attrs[Len(attrs)]
         IN  IF \E k \in DOMAIN vm : vm[k].key = variant
             THEN [k \in DOMAIN vm |->
                     IF vm[k].key = variant
                     THEN [key |-> variant, value |-> vm[k].value \cup ToSet(attributes)]
                     ELSE vm[k]]
             ELSE Append(vm, [key |-> variant, value |-> ToSet(attributes)])

RECURSIVE pv_MergeLoop(_, _, _)
\* pytest_variant line 155, from list k + 1 on
pv_MergeLoop(vm, lists, k) ==
    IF k < Len(lists) THEN pv_MergeLoop(pv_MergeOne(vm, lists[k + 1]), lists, k + 1) ELSE vm

\* list(attributes) of a set: its elements in some order, here descending
pv_ListOfSet(S) ==
    LET up == SortedList(S)
    IN  [k \in DOMAIN up |-> up[Len(up) + 1 - k]]

\* pytest_variant lines 146-165
from_lists(lists) ==
    LET vm == pv_MergeLoop(<<>>, lists, 0)
    IN  [k \in DOMAIN vm |-> pv_Variant(pv_ListOfSet(vm[k].value), vm[k].key)]

RECURSIVE JoinColon(_)
\* line 334: ":".join(xs), the strings of xs with a colon between them
JoinColon(xs) ==
    IF xs = <<>> THEN <<>>
    ELSE IF Len(xs) = 1 THEN xs[1]
    ELSE xs[1] \o <<":">> \o JoinColon(Tail(xs))

\* line 334: the test id of one Variant
TestId(obj) == JoinColon(Append(obj.attributes, obj.variant))

\* line 149: attributes or [], for an argument that is None or a list
OrEmptyList(arg) == IF arg.isNone \/ arg.items = <<>> THEN <<>> ELSE arg.items

\* AddAttributes keeping the attributes of the last object only
AddAttributesOverwrite(acc, obj) == ToSet(obj.attributes)

\* line 273: attributes.update(obj.attributes)
AddAttributes(acc, obj) == acc \cup ToSet(obj.attributes)

RECURSIVE AttributesLoop(_, _, _)
\* the loop of line 272, from object k + 1 on
AttributesLoop(acc, objs, k) ==
    IF k < Len(objs) THEN AttributesLoop(AddAttributes(acc, objs[k + 1]), objs, k + 1) ELSE acc

\* lines 271-276
get_attributes(objs) == SortedList(AttributesLoop({}, objs, 0))

\* the attributes argument of get_variants: None, one string, or a list
NoAttrs == [kind |-> "none", val |-> <<>>]
StrAttrs(x) == [kind |-> "str", val |-> x]
ListAttrs(xs) == [kind |-> "list", val |-> xs]

\* NormalizeAttrs without lines 294-295: a string is iterated by character
NormalizeAttrsIterChars(attributes) ==
    IF attributes.kind = "none" THEN NoneArgs
    ELSE IF attributes.kind = "str"
         THEN ListArgs([k \in DOMAIN attributes.val |-> <<attributes.val[k]>>])
    ELSE ListArgs(attributes.val)

\* lines 292-297: attr_list is None or a list
NormalizeAttrs(attributes) ==
    IF attributes.kind = "none" THEN NoneArgs
    ELSE IF attributes.kind = "str" THEN ListArgs(<<attributes.val>>)
    ELSE ListArgs(attributes.val)

\* NoAttrsRequested testing for None only
NoAttrsRequestedOnlyNone(attr_list) == attr_list.isNone

\* line 300: attr_list is None or not attr_list
NoAttrsRequested(attr_list) == attr_list.isNone \/ attr_list.items = <<>>

\* Selected with all() in the place of any()
SelectedAll(obj, attr_list) ==
    IF NoAttrsRequested(attr_list) THEN obj.attributes = <<>>
    ELSE \A k \in DOMAIN attr_list.items : attr_list.items[k] \in ToSet(obj.attributes)

\* lines 301 and 303-304: the condition of the list comprehension
Selected(obj, attr_list) ==
    IF NoAttrsRequested(attr_list) THEN obj.attributes = <<>>
    ELSE \E k \in DOMAIN attr_list.items : attr_list.items[k] \in ToSet(obj.attributes)

\* lines 300-304
FilterVariants(objs, attr_list) ==
    LET Keep(obj) == Selected(obj, attr_list)
    IN  SelectSeq(objs, Keep)

\* InsertByVariant keeping the order of the input
InsertAtEnd(sorted, x) == Append(sorted, x)

\* x put after the elements of a sorted list whose name is not above its own
InsertByVariant(sorted, x) ==
    LET n == Cardinality({k \in DOMAIN sorted : ~StrLess(x.variant, sorted[k].variant)})
    IN  SubSeq(sorted, 1, n) \o <<x>> \o SubSeq(sorted, n + 1, Len(sorted))

RECURSIVE SortedByVariant(_)
\* line 306: sorted(filtered_variants, key=lambda x: x.variant), a stable sort
SortedByVariant(objs) ==
    IF objs = <<>> THEN <<>>
    ELSE InsertByVariant(SortedByVariant(SubSeq(objs, 1, Len(objs) - 1)), objs[Len(objs)])

\* lines 291-309
get_variants(objs, attributes) ==
    SortedByVariant(FilterVariants(objs, NormalizeAttrs(attributes)))

(***************************************************************************)
(* One call of _split_escaped, an action per branch of the loop            *)
(***************************************************************************)
SplitState == [i |-> i, buf |-> buf, parts |-> parts]

SplitApply(st) ==
    /\ i' = st.i
    /\ buf' = st.buf
    /\ parts' = st.parts
    /\ UNCHANGED <<s, sep, spc>>
    /\ UNCHANGED <<pc, tokVars, mergeVars, queryVars, ids>>

\* no call of parse_variants under way
ParseIdle ==
    /\ pc = "idle"
    /\ variant_args = NoneArgs
    /\ arg_i = 0 /\ segs = <<>> /\ seg_i = 0 /\ prev_attrs = <<>> /\ ret = <<>>
    /\ attr_lists = <<>> /\ m_i = 0 /\ variant_map = <<>> /\ result = <<>>

\* no object built and no query under way
QueryIdle ==
    /\ obj_specs = <<>> /\ variant_objs = <<>> /\ built_by = "init"
    /\ q_arg = NoAttrs /\ q_ret = <<>> /\ qpc = "idle"
    /\ ids = <<>>

\* no call of _split_escaped under way
SplitIdle ==
    /\ spc = "idle"
    /\ s = <<>> /\ sep = "," /\ i = 0 /\ buf = <<>> /\ parts = <<>>

InitSplit ==
    /\ s \in StringsUpTo(MaxLen)
    /\ sep \in Seps
    /\ i = SplitStart.i
    /\ buf = SplitStart.buf
    /\ parts = SplitStart.parts
    /\ spc = "loop"
    /\ ParseIdle
    /\ QueryIdle

SplitEscape ==
    /\ spc = "loop"
    /\ i < Len(s)
    /\ EscapeCond(s, sep, i)
    /\ SplitApply(OnEscape(s, sep, SplitState))

SplitSep ==
    /\ spc = "loop"
    /\ i < Len(s)
    /\ ~EscapeCond(s, sep, i)
    /\ SepCond(s, sep, i)
    /\ SplitApply(OnSep(s, sep, SplitState))

SplitCopy ==
    /\ spc = "loop"
    /\ i < Len(s)
    /\ ~EscapeCond(s, sep, i)
    /\ ~SepCond(s, sep, i)
    /\ SplitApply(OnCopy(s, sep, SplitState))

SplitReturn ==
    /\ spc = "loop"
    /\ ~(i < Len(s))
    /\ parts' = OnReturn(SplitState)
    /\ spc' = "done"
    /\ UNCHANGED <<s, sep, i, buf>>
    /\ UNCHANGED <<pc, tokVars, mergeVars, queryVars, ids>>

NextSplit == SplitEscape \/ SplitSep \/ SplitCopy \/ SplitReturn

SpecSplit == InitSplit /\ [][NextSplit]_vars

\* the call runs on: a sequential program takes its next step
SpecSplitFair == SpecSplit /\ WF_vars(NextSplit)

(***************************************************************************)
(* One call of parse_variants: the tokenizer, then the merge               *)
(***************************************************************************)
Collections == UNION {[1..n -> StringsUpTo(MaxArgLen)] : n \in 0..MaxArgs}

\* the call starts at line 114 with ret = []
ParseStart ==
    /\ pc = "args"
    /\ arg_i = 0 /\ segs = <<>> /\ seg_i = 0
    /\ prev_attrs = TokStart.prev_attrs /\ ret = TokStart.ret
    /\ attr_lists = <<>> /\ m_i = 0 /\ variant_map = <<>> /\ result = <<>>
    /\ SplitIdle
    /\ QueryIdle

\* None, or a collection of short strings
Init ==
    /\ variant_args \in {NoneArgs} \cup {ListArgs(c) : c \in Collections}
    /\ ParseStart

\* one string, up to MaxOneLen characters
InitOne ==
    /\ variant_args \in {ListArgs(<<x>>) : x \in StringsUpTo(MaxOneLen)}
    /\ ParseStart

\* line 201: the raw attribute-lists go to parse_variants_from_list (line 250)
CallMerge(lists) ==
    /\ attr_lists' = lists
    /\ m_i' = 0
    /\ variant_map' = <<>>
    /\ pc' = "merge"
    /\ UNCHANGED result

\* lines 115-117
TokEarlyReturn ==
    /\ pc = "args"
    /\ Falsy(variant_args)
    /\ CallMerge(ret)
    /\ UNCHANGED <<tokVars, splitVars, queryVars, ids>>

\* lines 118-120: the next string, split on commas
TokArg ==
    /\ pc = "args"
    /\ ~Falsy(variant_args)
    /\ IterNext(variant_args, arg_i) = "item"
    /\ arg_i' = arg_i + 1
    /\ prev_attrs' = ArgStart([prev_attrs |-> prev_attrs, ret |-> ret]).prev_attrs
    /\ segs' = _split_escaped(variant_args.items[arg_i + 1], ",")
    /\ seg_i' = 0
    /\ pc' = "segs"
    /\ UNCHANGED <<variant_args, ret, mergeVars, splitVars, queryVars, ids>>

\* lines 121-128: one comma-segment
TokSegment ==
    /\ pc = "segs"
    /\ seg_i < Len(segs)
    /\ LET st == SegmentStep([prev_attrs |-> prev_attrs, ret |-> ret], segs[seg_i + 1])
       IN  /\ prev_attrs' = st.prev_attrs
           /\ ret' = st.ret
    /\ seg_i' = seg_i + 1
    /\ pc' = IF seg_i + 1 < Len(segs) THEN "segs" ELSE "args"
    /\ UNCHANGED <<variant_args, arg_i, segs, mergeVars, splitVars, queryVars, ids>>

\* lines 118, 129-130: the loop is over, or its argument cannot be iterated
TokReturn ==
    /\ pc = "args"
    /\ ~Falsy(variant_args)
    /\ IterNext(variant_args, arg_i) # "item"
    /\ IF IterNext(variant_args, arg_i) = "raise"
       THEN pc' = "raised" /\ UNCHANGED mergeVars
       ELSE CallMerge(ret)
    /\ UNCHANGED <<tokVars, splitVars, queryVars, ids>>

\* lines 251-258: one raw attribute-list
MergeStep ==
    /\ pc = "merge"
    /\ m_i < Len(attr_lists)
    /\ variant_map' = MergeOne(variant_map, attr_lists[m_i + 1])
    /\ m_i' = m_i + 1
    /\ UNCHANGED <<pc, attr_lists, result, tokVars, splitVars, queryVars, ids>>

\* lines 259-262
MergeReturn ==
    /\ pc = "merge"
    /\ m_i = Len(attr_lists)
    /\ result' = BuildVariants(variant_map)
    /\ pc' = "done"
    /\ UNCHANGED <<attr_lists, m_i, variant_map, tokVars, splitVars, queryVars, ids>>

NextOne == TokArg \/ TokSegment \/ TokReturn \/ MergeStep \/ MergeReturn

Next == TokEarlyReturn \/ NextOne

Spec == Init /\ [][Next]_vars

SpecOne == InitOne /\ [][NextOne]_vars

(***************************************************************************)
(* One call of parse_variants_from_list on raw attribute-lists             *)
(***************************************************************************)
\* the strings of a raw attribute-list, the empty string among them
Tokens == {<<>>, <<"a">>, <<"b">>, <<"a", "b">>}
RawLists == UNION {[1..n -> Tokens] : n \in 0..MaxRaw}

InitMerge ==
    /\ attr_lists \in UNION {[1..n -> RawLists] : n \in 0..MaxLists}
    /\ pc = "merge"
    /\ m_i = 0 /\ variant_map = <<>> /\ result = <<>>
    /\ variant_args = NoneArgs
    /\ arg_i = 0 /\ segs = <<>> /\ seg_i = 0 /\ prev_attrs = <<>> /\ ret = <<>>
    /\ SplitIdle
    /\ QueryIdle

NextMerge == MergeStep \/ MergeReturn

SpecMerge == InitMerge /\ [][NextMerge]_vars

\* the core entered by parse_variants or by parse_variants_from_list
InitCore == Init \/ InitMerge

SpecCore == InitCore /\ [][Next]_vars

(***************************************************************************)
(* Variant objects built and queried: the constructor or                   *)
(* parse_variants_from_list, then get_attributes or get_variants           *)
(***************************************************************************)
Names == {<<"a">>, <<"b">>}
QTokens == {<<"a">>, <<"a", "b">>}
ListsUpTo(S, n) == UNION {[1..k -> S] : k \in 0..n}

\* a name, and the attributes argument: None or a list
ObjSpecs ==
    [variant : Names,
     attributes : {NoneArgs} \cup {ListArgs(xs) : xs \in ListsUpTo(QTokens, MaxAttrs)}]

QueryArgs ==
    {NoAttrs} \cup {StrAttrs(x) : x \in QTokens}
              \cup {ListAttrs(xs) : xs \in ListsUpTo(QTokens, MaxQuery)}

InitQuery ==
    /\ obj_specs \in ListsUpTo(ObjSpecs, MaxObjs)
    /\ variant_objs = <<>>
    /\ built_by = "init"
    /\ qpc = IF obj_specs = <<>> THEN "ready" ELSE "build"
    /\ q_arg = NoAttrs /\ q_ret = <<>>
    /\ ids = <<>>
    /\ ParseIdle
    /\ SplitIdle

\* VariantPluginBase(variant, attributes) for the next pair
Construct ==
    /\ qpc = "build"
    /\ Len(variant_objs) < Len(obj_specs)
    /\ LET spec == obj_specs[Len(variant_objs) + 1]
       IN  variant_objs' = Append(variant_objs, Variant(spec.variant, OrEmptyList(spec.attributes)))
    /\ qpc' = IF Len(variant_objs) + 1 < Len(obj_specs) THEN "build" ELSE "ready"
    /\ UNCHANGED <<obj_specs, built_by, q_arg, q_ret, pc, tokVars, mergeVars, splitVars, ids>>

\* the pairs as raw attribute-lists [attr, ..., name]
RawOf(specs) == [k \in DOMAIN specs |-> Append(specs[k].attributes.items, specs[k].variant)]

\* parse_variants_from_list on all the pairs at once
ParseFromList ==
    /\ qpc = "build"
    /\ variant_objs = <<>>
    /\ \A k \in DOMAIN obj_specs : ~obj_specs[k].attributes.isNone
    /\ variant_objs' = parse_variants_from_list(RawOf(obj_specs))
    /\ built_by' = "parse"
    /\ qpc' = "ready"
    /\ UNCHANGED <<obj_specs, q_arg, q_ret, pc, tokVars, mergeVars, splitVars, ids>>

\* get_attributes(variant_objs)
GetAttributes ==
    /\ qpc = "ready"
    /\ q_ret' = get_attributes(variant_objs)
    /\ qpc' = "attributes"
    /\ UNCHANGED <<obj_specs, variant_objs, built_by, q_arg, pc, tokVars, mergeVars, splitVars, ids>>

\* get_variants(variant_objs, attributes)
GetVariants ==
    /\ qpc = "ready"
    /\ \E a \in QueryArgs :
         /\ q_arg' = a
         /\ q_ret' = get_variants(variant_objs, a)
    /\ qpc' = "variants"
    /\ UNCHANGED <<obj_specs, variant_objs, built_by, pc, tokVars, mergeVars, splitVars, ids>>

NextQuery == Construct \/ ParseFromList \/ GetAttributes \/ GetVariants

SpecQuery == InitQuery /\ [][NextQuery]_vars

(***************************************************************************)
(* pytest_generate_tests: the --variant options (or the one ini string)    *)
(* are parsed and each Variant gets its test id                            *)
(***************************************************************************)
IdChars == {"a", ":", BS}
IdStrings == UNION {[1..k -> IdChars] : k \in 0..MaxIdLen}

\* lines 316-319: the options given, one ini string, or nothing
InitIds ==
    /\ variant_args \in {ListArgs(c) : c \in UNION {[1..n -> IdStrings] : n \in 0..MaxIdArgs}}
    /\ ParseStart

\* lines 332-338, after get_all_variant_objs returned
GenerateIds ==
    /\ pc = "done"
    /\ \E uses_variant \in BOOLEAN :
         IF uses_variant
         THEN /\ ids' = [k \in DOMAIN result |-> TestId(result[k])]
              /\ pc' = "parametrized"
         ELSE /\ ids' = ids
              /\ pc' = "not_parametrized"
    /\ UNCHANGED <<tokVars, mergeVars, splitVars, queryVars>>

NextIds == Next \/ GenerateIds

SpecIds == InitIds /\ [][NextIds]_vars

(***************************************************************************)
(* Properties of the tokenizer and the merge                               *)
(***************************************************************************)
A == <<"a">>
B == <<"b">>

\* the names of the raw attribute-lists: the last element of each non-empty list
NamesOf(lists) == {lists[k][Len(lists[k])] : k \in {m \in DOMAIN lists : lists[m] # <<>>}}

\* the attributes the raw lists give to name n
AttrsOf(lists, n) ==
    UNION {ToSet(SubSeq(lists[k], 1, Len(lists[k]) - 1)) :
             k \in {m \in DOMAIN lists : lists[m] # <<>> /\ lists[m][Len(lists[m])] = n}}

\* C1: the list returned by parse_variants never holds two Variants of the
\* same name: every name of the input occurs in it exactly once.
C1_UniqueNames ==
    pc = "done" =>
        /\ \A j, k \in DOMAIN result : j # k => result[j].variant # result[k].variant
        /\ \A n \in NamesOf(attr_lists) : \E k \in DOMAIN result : result[k].variant = n

\* the name a three times, within one string and across strings
C1_Witness ==
    /\ pc = "done"
    /\ variant_args = ListArgs(<< <<"a", ",", "a">>, <<"a">> >>)
    /\ attr_lists = <<<<A>>, <<A>>, <<A>>>>
    /\ result = <<[variant |-> A, attributes |-> <<>>]>>

\* C2: the Variant that parse_variants_from_list returns for a name N holds
\* exactly the union of the attribute prefixes of the raw lists that end in N.
C2_AttributesAreUnion ==
    pc = "done" =>
        \A n \in NamesOf(attr_lists) :
            /\ \E k \in DOMAIN result : result[k].variant = n
            /\ \A k \in DOMAIN result :
                 result[k].variant = n => ToSet(result[k].attributes) = AttrsOf(attr_lists, n)

\* two occurrences of a name with different attributes
C2_Witness ==
    /\ pc = "done"
    /\ attr_lists = << <<A, B>>, <<<<"a", "b">>, B>> >>
    /\ result = <<[variant |-> B, attributes |-> <<A, <<"a", "b">>>>]>>

\* the orderings of a list
Perms(xs) ==
    {[k \in DOMAIN xs |-> xs[f[k]]] :
        f \in {g \in [DOMAIN xs -> DOMAIN xs] : \A x, y \in DOMAIN xs : g[x] = g[y] => x = y}}

\* a list of Variants as the set of its (name, attribute set) pairs
AsSet(vs) == {[variant |-> vs[k].variant, attributes |-> ToSet(vs[k].attributes)] : k \in DOMAIN vs}

\* C3: parse_variants of any permutation of the input strings yields the same
\* variant names with the same attribute sets.
C3_OrderOfStrings ==
    pc = "done" =>
        \A p \in Perms(variant_args.items) :
            AsSet(parse_variants(ListArgs(p))) = AsSet(result)

\* the same name with a different attribute in each of two strings
C3_Witness ==
    /\ pc = "done"
    /\ variant_args = ListArgs(<< <<"a", ":", "b">>, <<"b", ":", "b">> >>)
    /\ result = <<[variant |-> B, attributes |-> <<A, B>>]>>

\* the non-empty tokens of every comma-segment of a string
ToksOf(arg) ==
    LET vstrs == _split_escaped(arg, ",")
    IN  [j \in DOMAIN vstrs |-> DropEmpty(_split_escaped(vstrs[j], ":"))]

\* the attribute prefix of the most recent segment before j with two or more
\* tokens, empty when there is none
PrefixBefore(toks, j) ==
    LET earlier == {m \in 1..(j - 1) : Len(toks[m]) >= 2}
    IN  IF earlier = {} THEN <<>>
        ELSE LET m == CHOOSE x \in earlier : \A y \in earlier : y <= x
             IN  SubSeq(toks[m], 1, Len(toks[m]) - 1)

\* the place in ret of the raw list of segment j: segments without a token emit nothing
RankOf(toks, j) == Cardinality({m \in 1..j : toks[m] # <<>>})

\* C4: within one string, a segment that is one bare name is emitted as the
\* attribute prefix of the most recent earlier segment with two or more
\* tokens, followed by the name; as the name alone when there is none.
C4_BareNameInherits ==
    pc \in {"merge", "done"} =>
        LET toks == ToksOf(variant_args.items[1])
        IN  \A j \in DOMAIN toks :
                Len(toks[j]) = 1 =>
                    /\ RankOf(toks, j) <= Len(ret)
                    /\ ret[RankOf(toks, j)] = PrefixBefore(toks, j) \o toks[j]

\* a bare name after an empty segment inherits from the segment before it
C4_Witness ==
    /\ pc = "done"
    /\ variant_args = ListArgs(<< <<"a", ":", "b", ",", ",", "a">> >>)
    /\ ret = << <<A, B>>, <<A, A>> >>

RECURSIVE EachAlone(_, _)
\* the raw lists of every string tokenized alone, concatenated, from string k on
EachAlone(items, k) ==
    IF k > Len(items) THEN <<>>
    ELSE _parse_variant_args_to_lists(ListArgs(<<items[k]>>)) \o EachAlone(items, k + 1)

\* C5: the raw lists of a collection are the raw lists of each of its strings
\* tokenized alone, in order: no attribute passes from one string to the next.
C5_NoCarryAcrossStrings ==
    pc \in {"merge", "done"} => ret = EachAlone(variant_args.items, 1)

\* a bare name after a string with attributes gets none
C5_Witness ==
    /\ pc = "done"
    /\ variant_args = ListArgs(<< <<"a", ":", "b">>, <<"a">> >>)
    /\ ret = << <<A, B>>, <<A>> >>

\* C11: None and the empty collection make _parse_variant_args_to_lists return
\* no raw list and parse_variants return no Variant, and nothing is raised.
C11_EmptyInput ==
    (variant_args.isNone \/ variant_args.items = <<>>) =>
        /\ pc \in {"args", "merge", "done"}
        /\ ret = <<>> /\ attr_lists = <<>> /\ result = <<>>

\* parse_variants(None) has returned
C11_Witness ==
    /\ pc = "done"
    /\ variant_args = NoneArgs
    /\ result = <<>>

\* C12: every raw attribute-list of the tokenizer is non-empty and holds no
\* empty string, so every Variant of parse_variants has a non-empty name and
\* only non-empty attributes.
C12_NoEmptyToken ==
    /\ \A k \in DOMAIN ret : ret[k] # <<>> /\ \A j \in DOMAIN ret[k] : ret[k][j] # <<>>
    /\ \A k \in DOMAIN result :
         /\ result[k].variant # <<>>
         /\ \A j \in DOMAIN result[k].attributes : result[k].attributes[j] # <<>>

\* doubled and trailing colons, and segments without a token
C12_Witness ==
    /\ pc = "done"
    /\ variant_args = ListArgs(<< <<"a", ":", ":", "b", ":", ",", ",">> >>)
    /\ ret = << <<A, B>> >>
    /\ result = <<[variant |-> B, attributes |-> <<A>>]>>

RECURSIVE Lex(_, _, _, _, _)
\* one left-to-right pass over a string from character k on: backslash-comma
\* and backslash-colon are the literal comma and colon, a bare comma ends the
\* segment, a bare colon ends the token, every other character is itself;
\* tok is the open token, seg the closed tokens of the open segment
Lex(str, k, tok, seg, out) ==
    IF k > Len(str) THEN Append(out, Append(seg, tok))
    ELSE IF str[k] = BS /\ k < Len(str) /\ str[k + 1] \in {",", ":"}
         THEN Lex(str, k + 2, Append(tok, str[k + 1]), seg, out)
    ELSE IF str[k] = "," THEN Lex(str, k + 1, <<>>, <<>>, Append(out, Append(seg, tok)))
    ELSE IF str[k] = ":" THEN Lex(str, k + 1, <<>>, Append(seg, tok), out)
    ELSE Lex(str, k + 1, Append(tok, str[k]), seg, out)

\* the non-empty tokens of every segment, by that one pass
LexToks(str) ==
    LET NonEmpty(x) == x # <<>>
        lexed == Lex(str, 1, <<>>, <<>>, <<>>)
    IN  [j \in DOMAIN lexed |-> SelectSeq(lexed[j], NonEmpty)]

RECURSIVE Emitted(_, _)
\* the raw lists of the segments from j on: a segment of one token gets the
\* prefix of the most recent earlier segment of two or more tokens
Emitted(toks, j) ==
    IF j > Len(toks) THEN <<>>
    ELSE (IF toks[j] = <<>> THEN <<>>
          ELSE IF Len(toks[j]) = 1 THEN <<PrefixBefore(toks, j) \o toks[j]>>
          ELSE <<toks[j]>>) \o Emitted(toks, j + 1)

\* C17: the comma-level split followed by the colon-level split reads a
\* string as one pass would: backslash-comma is a comma inside a token and
\* starts no segment, backslash-colon is a colon inside a token and separates
\* nothing, and a token holding an escaped delimiter is one token when
\* attributes are inherited.
C17_TwoLevelEscaping ==
    pc \in {"merge", "done"} => ret = Emitted(LexToks(variant_args.items[1]), 1)

\* the name "," with attribute a, then the bare name ":" inheriting a
C17_Witness ==
    /\ pc = "done"
    /\ variant_args = ListArgs(<< <<"a", ":", BS, ",", ",", BS, ":">> >>)
    /\ ret = << <<A, <<",">>>>, <<A, <<":">>>> >>

\* C18: giving every string a second time changes nothing: the same names,
\* the same attributes and the same order.
C18_MergeIdempotent ==
    (pc = "done" /\ ~variant_args.isNone) =>
        parse_variants(ListArgs(variant_args.items \o variant_args.items)) = result

\* a name repeated with the same attribute is one Variant with that attribute
C18_Witness ==
    /\ pc = "done"
    /\ variant_args = ListArgs(<< <<"a", ":", "b">>, <<"a", ":", "b">> >>)
    /\ result = <<[variant |-> B, attributes |-> <<A>>]>>

\* C19: a segment of two or more tokens is emitted as its own tokens and its
\* attribute prefix becomes the inheritance context; a segment of one token
\* or none leaves the context as it is.
C19_ContextReplaced ==
    [][(pc = "segs" /\ seg_i < Len(segs)) =>
        LET toks == DropEmpty(_split_escaped(segs[seg_i + 1], ":"))
        IN  /\ Len(toks) >= 2 =>
                /\ ret' = Append(ret, toks)
                /\ prev_attrs' = SubSeq(toks, 1, Len(toks) - 1)
            /\ Len(toks) < 2 => prev_attrs' = prev_attrs]_vars

\* the second segment does not inherit a and leaves the context b
C19_Witness ==
    /\ pc = "done"
    /\ variant_args = ListArgs(<< <<"a", ":", "b", ",", "b", ":", "a">> >>)
    /\ ret = << <<A, B>>, <<B, A>> >>
    /\ prev_attrs = <<B>>

\* the first raw list that names n
FirstIdx(lists, n) ==
    CHOOSE m \in DOMAIN lists :
        /\ lists[m] # <<>> /\ lists[m][Len(lists[m])] = n
        /\ \A x \in 1..(m - 1) : lists[x] = <<>> \/ lists[x][Len(lists[x])] # n

\* C20: parse_variants_from_list returns one Variant per distinct name, in
\* the order in which the names first occur in the raw lists.
C20_FirstSeenOrder ==
    pc = "done" =>
        /\ Len(result) = Cardinality(NamesOf(attr_lists))
        /\ \A k \in DOMAIN result : result[k].variant \in NamesOf(attr_lists)
        /\ \A j, k \in DOMAIN result :
             j < k => FirstIdx(attr_lists, result[j].variant) < FirstIdx(attr_lists, result[k].variant)

\* b gets an attribute after a, and stays first
C20_Witness ==
    /\ pc = "done"
    /\ variant_args = ListArgs(<< <<"b", ",", "a", ",", "a", ":", "b">> >>)
    /\ attr_lists = << <<B>>, <<A>>, <<A, B>> >>
    /\ result = <<[variant |-> B, attributes |-> <<A>>], [variant |-> A, attributes |-> <<>>]>>

\* how often x is in a list
Count(xs, x) == Cardinality({k \in DOMAIN xs : xs[k] = x})

StrictlyAscending(xs) == \A k \in 1..(Len(xs) - 1) : StrLess(xs[k], xs[k + 1])

\* C13: get_variants with no attributes (omitted, None or an empty list)
\* returns exactly the variants of the list that have no attribute.
C13_NoAttributesSelectsBare ==
    (qpc = "variants" /\ (q_arg.kind = "none" \/ (q_arg.kind = "list" /\ q_arg.val = <<>>))) =>
        \A v \in ToSet(variant_objs) \cup ToSet(q_ret) :
            Count(q_ret, v) = IF v.attributes = <<>> THEN Count(variant_objs, v) ELSE 0

\* the empty list selects the one variant without attributes
C13_Witness ==
    /\ qpc = "variants"
    /\ q_arg = ListAttrs(<<>>)
    /\ variant_objs = <<[variant |-> A, attributes |-> <<A>>], [variant |-> B, attributes |-> <<>>]>>
    /\ q_ret = <<[variant |-> B, attributes |-> <<>>]>>

\* C14: get_variants with a non-empty list returns exactly the variants that
\* carry at least one of the requested attributes.
C14_AnyAttributeSelects ==
    (qpc = "variants" /\ q_arg.kind = "list" /\ q_arg.val # <<>>) =>
        \A v \in ToSet(variant_objs) \cup ToSet(q_ret) :
            Count(q_ret, v) = IF ToSet(v.attributes) \cap ToSet(q_arg.val) # {}
                              THEN Count(variant_objs, v) ELSE 0

\* a variant with one of the two requested attributes is returned, the one
\* without attributes is not
C14_Witness ==
    /\ qpc = "variants"
    /\ q_arg = ListAttrs(<<A, <<"a", "b">>>>)
    /\ variant_objs = <<[variant |-> B, attributes |-> <<A>>], [variant |-> A, attributes |-> <<>>]>>
    /\ q_ret = <<[variant |-> B, attributes |-> <<A>>]>>

\* C15: get_attributes returns every attribute of at least one variant, each
\* once, in ascending order, and nothing else.
C15_AllAttributesSorted ==
    qpc = "attributes" =>
        /\ StrictlyAscending(q_ret)
        /\ ToSet(q_ret) = UNION {ToSet(variant_objs[k].attributes) : k \in DOMAIN variant_objs}

\* the attributes of two variants, sorted
C15_Witness ==
    /\ qpc = "attributes"
    /\ variant_objs = <<[variant |-> A, attributes |-> <<<<"a", "b">>>>],
                        [variant |-> B, attributes |-> <<A>>]>>
    /\ q_ret = <<A, <<"a", "b">>>>

\* the attributes the pairs give to name n, None giving none
GivenTo(specs, n) ==
    UNION {ToSet(specs[k].attributes.items) : k \in {m \in DOMAIN specs : specs[m].variant = n}}

\* C16: every Variant object, built by the constructor or by
\* parse_variants_from_list, holds its attributes as a strictly ascending
\* list of exactly the attributes it was given.
C16_AttributesSortedUnique ==
    \A k \in DOMAIN variant_objs :
        /\ StrictlyAscending(variant_objs[k].attributes)
        /\ built_by = "init" =>
             /\ variant_objs[k].variant = obj_specs[k].variant
             /\ ToSet(variant_objs[k].attributes) = ToSet(obj_specs[k].attributes.items)
        /\ built_by = "parse" =>
             ToSet(variant_objs[k].attributes) = GivenTo(obj_specs, variant_objs[k].variant)

\* the constructor given attributes out of order, and given one twice
C16_Witness ==
    /\ built_by = "init"
    /\ obj_specs = <<[variant |-> A, attributes |-> ListArgs(<<<<"a", "b">>, A>>)],
                     [variant |-> B, attributes |-> ListArgs(<<A, A>>)]>>
    /\ variant_objs = <<[variant |-> A, attributes |-> <<A, <<"a", "b">>>>],
                        [variant |-> B, attributes |-> <<A>>]>>

\* the attributes a get_variants argument asks for
Requested(arg) ==
    IF arg.kind = "none" THEN {}
    ELSE IF arg.kind = "str" THEN {arg.val}
    ELSE ToSet(arg.val)

\* obj is a match of the request arg
IsMatch(obj, arg) ==
    IF Requested(arg) = {} THEN obj.attributes = <<>>
    ELSE ToSet(obj.attributes) \cap Requested(arg) # {}

\* C21: get_variants returns its matches in ascending order of variant name
\* whatever the order of the input, holds every matching element of the input
\* as often as the input does, and holds nothing else.
C21_SortedByNameEachOnce ==
    qpc = "variants" =>
        /\ \A k \in 1..(Len(q_ret) - 1) : ~StrLess(q_ret[k + 1].variant, q_ret[k].variant)
        /\ \A v \in ToSet(variant_objs) \cup ToSet(q_ret) :
               Count(q_ret, v) = IF IsMatch(v, q_arg) THEN Count(variant_objs, v) ELSE 0

\* two matches given in descending order of name come back ascending
C21_Witness ==
    /\ qpc = "variants"
    /\ q_arg = ListAttrs(<<A>>)
    /\ variant_objs = <<[variant |-> B, attributes |-> <<A>>], [variant |-> A, attributes |-> <<A>>]>>
    /\ q_ret = <<[variant |-> A, attributes |-> <<A>>], [variant |-> B, attributes |-> <<A>>]>>

\* C22: get_variants given one attribute as a string returns what it returns
\* for the one-element list of that string: the string is one whole attribute.
C22_StringIsOneAttribute ==
    (qpc = "variants" /\ q_arg.kind = "str") =>
        /\ q_ret = get_variants(variant_objs, ListAttrs(<<q_arg.val>>))
        /\ \A k \in DOMAIN q_ret : q_arg.val \in ToSet(q_ret[k].attributes)

\* the string "ab" selects the variant with attribute "ab", not the one with "a"
C22_Witness ==
    /\ qpc = "variants"
    /\ q_arg = StrAttrs(<<"a", "b">>)
    /\ variant_objs = <<[variant |-> A, attributes |-> <<A>>],
                        [variant |-> B, attributes |-> <<<<"a", "b">>>>]>>
    /\ q_ret = <<[variant |-> B, attributes |-> <<<<"a", "b">>>>]>>

\* C23: a comma-segment with colons but one non-empty token only (a name
\* with leading, trailing or doubled colons) is handled as the bare name:
\* emitted after the current attribute prefix, as the name alone when there
\* is no prefix, and the inheritance context stays as it is.
C23_StrayColonsAreBareName ==
    [][(pc = "segs" /\ seg_i < Len(segs)) =>
        LET NonEmpty(x) == x # <<>>
            split == _split_escaped(segs[seg_i + 1], ":")
            toks == SelectSeq(split, NonEmpty)
        IN  (Len(split) > 1 /\ Len(toks) = 1) =>
                /\ ret' = Append(ret, prev_attrs \o toks)
                /\ prev_attrs' = prev_attrs]_vars

\* the name a behind two colons inherits the attribute a of the first segment
C23_Witness ==
    /\ pc = "done"
    /\ variant_args = ListArgs(<< <<"a", ":", "b", ",", ":", ":", "a">> >>)
    /\ ret = << <<A, B>>, <<A, A>> >>
    /\ prev_attrs = <<A>>

\* C24: the test ids of the Variants of one parse_variants call are pairwise
\* distinct: two Variants with different names never get the same id, also
\* when a name or an attribute holds a literal colon.
C24_IdsDistinct ==
    pc = "parametrized" =>
        \A j, k \in DOMAIN result :
            result[j].variant # result[k].variant => ids[j] # ids[k]

\* C25: the two revisions of the core agree: _parse_variants of pytest_variant
\* returns the raw attribute-lists that _parse_variant_args_to_lists returns,
\* and from_lists of pytest_variant returns the Variants that
\* parse_variants_from_list returns: the same names, the same sorted
\* attributes, the same order, duplicates merged by union.
C25_RevisionsAgree ==
    /\ (pc \in {"merge", "done"} /\ attr_lists = ret) => _parse_variants(variant_args) = ret
    /\ pc = "done" => from_lists(attr_lists) = result

\* a name given twice, with an attribute the first time only
C25_Witness ==
    /\ pc = "done"
    /\ variant_args = ListArgs(<< <<"b", ":", "a">>, <<"a">> >>)
    /\ _parse_variants(variant_args) = << <<B, A>>, <<A>> >>
    /\ result = <<[variant |-> A, attributes |-> <<B>>]>>

(***************************************************************************)
(* Properties of _split_escaped                                            *)
(***************************************************************************)
\* position p (1-based) holds a backslash followed by c
IsPair(str, c, p) == str[p] = BS /\ p < Len(str) /\ str[p + 1] = c

RECURSIVE Reached(_, _, _)
\* the left-to-right scan stops at position p: p is not the second character
\* of a backslash-c pair the scan consumed
Reached(str, c, p) ==
    IF p = 1 THEN TRUE
    ELSE \/ Reached(str, c, p - 1) /\ ~IsPair(str, c, p - 1)
         \/ p > 2 /\ Reached(str, c, p - 2) /\ IsPair(str, c, p - 2)

UnescapedSeps(str, c) == {p \in 1..Len(str) : str[p] = c /\ Reached(str, c, p)}

\* C6: _split_escaped(s, c) returns exactly k + 1 segments, k the number of
\* unescaped occurrences of c in s; the final segment is always emitted, so
\* the empty string yields one empty segment.
C6_SegmentCount ==
    spc = "done" =>
        /\ Len(parts) = Cardinality(UnescapedSeps(s, sep)) + 1
        /\ (s = <<>> => parts = << <<>> >>)

\* one escaped and one unescaped separator, and an empty final segment
C6_Witness ==
    /\ spc = "done"
    /\ s = <<"a", BS, ",", ",">>
    /\ sep = ","
    /\ parts = << <<"a", ",">>, <<>> >>

\* C7: a backslash immediately followed by c adds the single character c to
\* the current segment, consumes both characters and does not end the
\* segment; the backslash is not part of the output.
C7_EscapeIsLiteral ==
    [][(spc = "loop" /\ i + 1 < Len(s) /\ s[i + 1] = BS /\ s[i + 2] = sep)
        => (buf' = Append(buf, sep) /\ i' = i + 2 /\ parts' = parts /\ spc' = "loop")]_vars

C7_Witness ==
    /\ spc = "done"
    /\ s = <<"a", BS, ",", "b">>
    /\ sep = ","
    /\ parts = << <<"a", ",", "b">> >>

\* C8: a backslash that is the last character of s, or is followed by a
\* character other than c, is copied verbatim into the current segment, and
\* the scan goes on with the very next character.
C8_LoneBackslashKept ==
    [][(spc = "loop" /\ i < Len(s) /\ s[i + 1] = BS
           /\ (i + 1 = Len(s) \/ s[i + 2] # sep))
        => (buf' = Append(buf, BS) /\ i' = i + 1 /\ parts' = parts /\ spc' = "loop")]_vars

\* a backslash followed by a backslash that starts an escape, and a trailing one
C8_Witness ==
    /\ spc = "done"
    /\ s = <<BS, BS, ",", BS>>
    /\ sep = ","
    /\ parts = << <<BS, ",", BS>> >>

RECURSIVE EscapeSeg(_, _)
\* a segment with every literal c written as backslash-c
EscapeSeg(seg, c) ==
    IF seg = <<>> THEN <<>>
    ELSE (IF Head(seg) = c THEN <<BS, c>> ELSE <<Head(seg)>>) \o EscapeSeg(Tail(seg), c)

RECURSIVE JoinEscaped(_, _)
\* the segments, re-escaped, joined with c
JoinEscaped(ps, c) ==
    IF Len(ps) = 0 THEN <<>>
    ELSE IF Len(ps) = 1 THEN EscapeSeg(ps[1], c)
    ELSE EscapeSeg(ps[1], c) \o <<c>> \o JoinEscaped(Tail(ps), c)

\* C9: splitting s on c, re-escaping every literal c of each segment and
\* rejoining the segments with c gives s back.
C9_RoundTrip == spc = "done" => JoinEscaped(parts, sep) = s

\* an escaped separator, a separator and a trailing lone backslash
C9_Witness ==
    /\ spc = "done"
    /\ s = <<"a", BS, ",", ",", BS>>
    /\ sep = ","
    /\ parts = << <<"a", ",">>, <<BS>> >>

\* C10: every loop iteration moves the scan index forward by 1 or 2, never
\* past len(s), and the call ends by returning a non-empty list of strings.
C10_Terminates ==
    /\ [](i <= Len(s))
    /\ [][(spc = "loop" /\ i < Len(s)) => (i' \in {i + 1, i + 2} /\ i' <= Len(s))]_vars
    /\ [](spc = "done" => (parts \in Seq(Seq(Chars)) /\ Len(parts) >= 1))
    /\ <>(spc = "done")

\* a finished call whose scan took steps of 1 and of 2
C10_Witness ==
    /\ spc = "done"
    /\ s = <<"a", BS, ",", "b", ",">>
    /\ sep = ","
    /\ i = Len(s)
====
